---- MODULE Spec2Model ----
(* People's Daily PDF downloader: the edition-acquisition pipeline of the two   *)
(* source variants (PyMuPDF merge, PyPDF2 merge).  One process invocation is    *)
(* main(); the environment answers every HTTP GET and may raise                 *)
(* KeyboardInterrupt while the process blocks in a network call or in the merge. *)
EXTENDS Integers, Sequences, FiniteSets, TLC

(* ---------------------------------------------------------------- bounds *)
MaxPages == 2      \* largest marker count a cover page reports
MaxDates == 2      \* calendar days of the modelled universe, 1..MaxDates
YearSpan == 1      \* validated dates lie in the years MinYear - 1 .. MinYear + YearSpan
MaxSpan == 3       \* longest distance in days between the two dates of a range input

(* ------------------------------------------------------ program constants *)
MAX_RETRIES == 3
MinSize == 1024
MinYear == 2003    \* dt.year < 2003 is rejected
NoTask == -1       \* main_task = None (single-date mode)
NoExit == -1       \* the process has not exited
ExitOk == 0        \* main() returns
ExitFatal == 1     \* sys.exit(1)
ExitInterrupted == 130   \* sys.exit(130)
FirstTaskId == 0   \* TaskID returned by the first Progress.add_task

Dates == 1..MaxDates
Sizes == {1023, 1024}
Variants == {"fitz", "pypdf2"}

VARIABLES
  variant,        \* the source variant that is running; the two differ only in
                  \* merge_pdfs, so "unset" until the run's first merge_pdfs call
  mode,           \* "single" | "batch" | "none"
  date_list,      \* batch: the list validate_date_range returned
  idx,            \* batch: enumerate index of the date being processed
  completed,      \* batch: completed count of the main progress task
  main_task,      \* TaskID of the batch progress task, NoTask in single mode
  cur,            \* target_date being processed
  pc,             \* position of the process
  retry,          \* attempts already made by the running safe_request / download_pdf
  paused,         \* the running call's last failed attempt was followed by time.sleep(1)
  gets,           \* GETs issued so far by the call that issued the latest GET
  answer,         \* how the latest GET was answered: "exc" | "404" | "500" | "200", for a
                  \* binary GET with status 200 its content type "pdf" | "html"; "none"
                  \* once the caller has gone on
  total_pages, is_new, page, success,   \* locals of download_edition
  dlResult,       \* return value of download_edition
  loopEnd,        \* how the page loop ended: "none" | "done" | "cancel" | "interrupt"
  mergeRet,       \* "none" (merge_pdfs not called) | "ok" | "fail"
  listing,        \* os.listdir order seen by the last merge_pdfs call
  merged,         \* files appended by the last merge_pdfs call, in order
  tempExists, tempFiles,     \* the temp directory and the page files in it
  wsAtPost,       \* what the post-download step of main found in the workspace:
                  \* [valid: a parsable file of >= 1 KB, corrupt: an unparsable one of >= 1 KB]
  outputs, writes,           \* download directory: per date whether the artifact exists (its
                             \* content is `merged` of the call that wrote it), and how often it was written
  reqKinds,       \* kinds of URL requested during the current date
  attempted,      \* pages whose loop body was entered, in order
  pageStatus,     \* per page: "pending" | "success" | "failed" (attempts exhausted)
                  \* | "not_pdf" | "no_node" | "no_link"
  binIssued,      \* pages for which a binary GET was issued
  attemptedDates, \* dates for which download_edition was called in this run
  existedAtStart, \* the artifact of cur existed when processing of cur began
  locateFailed,   \* get_page_info took its sys.exit(1) path for cur
  interrupted,    \* the user raised KeyboardInterrupt while cur was processed
  exitCode,       \* process exit code, NoExit while running
  today,          \* datetime.date.today() of the validators
  task,           \* which validator is applied: "date" | "range" | "none"
  vday, vpad,     \* the calendar day whose encodings are given to validate_date,
                  \* and whether month and day are written with two digits
  vresults,       \* the results of validate_date for the encodings 1..k of vday
  rspec,          \* the two dates and the shape of the text given to validate_date_range
  rresult,        \* the result of validate_date_range
  cpc,            \* two invocations of the tool at once: the position of each
  cpage,          \* each invocation's page loop variable
  cwrote,         \* the pages each invocation has downloaded successfully
  cws,            \* BASE_DIR/temp, the directory both use: [exists, files]
  cmerged,        \* the files each invocation's merge_pdfs call appended
  cout            \* the date in the name of the artifact each invocation wrote, 0: none

vars == << variant, mode, date_list, idx, completed, main_task, cur, pc, retry,
           paused, gets, answer, total_pages, is_new, page, success, dlResult, loopEnd, mergeRet,
           listing, merged, tempExists, tempFiles, wsAtPost, outputs, writes,
           reqKinds, attempted, pageStatus, binIssued, attemptedDates,
           existedAtStart, locateFailed, interrupted, exitCode,
           today, task, vday, vpad, vresults, rspec, rresult,
           cpc, cpage, cwrote, cws, cmerged, cout >>

\* the state of two invocations running at once
concVars == << cpc, cpage, cwrote, cws, cmerged, cout >>

\* the state of the validators, and the state of the pipeline
dateVars == << today, task, vday, vpad, vresults, rspec, rresult >>
pipeVars == << variant, mode, date_list, idx, completed, main_task, cur, pc, retry,
               paused, gets, answer, total_pages, is_new, page, success, dlResult,
               loopEnd, mergeRet, listing, merged, tempExists, tempFiles, wsAtPost,
               outputs, writes, reqKinds, attempted, pageStatus, binIssued,
               attemptedDates, existedAtStart, locateFailed, interrupted, exitCode >>

(* ------------------------------------------------------------- file names *)
\* digits of a positive integer, most significant first
RECURSIVE Digits(_)
Digits(n) == IF n < 10 THEN <<n>> ELSE Digits(n \div 10) \o <<n % 10>>

\* f"{page:02d}": at least two digits, zero padded
Fmt02(p) == IF p < 10 THEN <<0, p>> ELSE Digits(p)

\* f"rmrb{file_fmt}{page:02d}.pdf": the date part and the page digits
FileName(d, p) == [date |-> d, pp |-> Fmt02(p)]

\* int(x[-6:-4]): the two characters before ".pdf"
PageKeyUnits(name) == name.pp[Len(name.pp)]
PageKey(name) == 10 * name.pp[Len(name.pp) - 1] + name.pp[Len(name.pp)]

\* pdf_files[0][4:12]: the 8 date characters after "rmrb"
NameDate(name) == name.date

NoFiles == [valid |-> FALSE, corrupt |-> FALSE]


(* ------------------------------------------------------------- merge_pdfs *)
\* a page file of the workspace: its name, its size in bytes, whether the
\* merge library can parse it
WriteFile(files, f) == {g \in files : g.name # f.name} \cup {f}

\* os.listdir(temp_dir): the files in any order
Enumerations(files) ==
  {s \in [1..Cardinality(files) -> files] : \A i, j \in DOMAIN s : s[i] = s[j] => i = j}

\* sorted(..., key=lambda x: int(x[-6:-4])): a stable sort on the page key
RECURSIVE InsertSorted(_, _)
InsertSorted(s, f) ==
  IF s = <<>> THEN <<f>>
  ELSE IF PageKey(Head(s).name) <= PageKey(f.name)
       THEN <<Head(s)>> \o InsertSorted(Tail(s), f)
       ELSE <<f>> \o s

RECURSIVE SortedByPage(_)
SortedByPage(s) ==
  IF s = <<>> THEN <<>>
  ELSE InsertSorted(SortedByPage(SubSeq(s, 1, Len(s) - 1)), s[Len(s)])

\* the size test of the merge loop: os.path.getsize(path) < 1024 is skipped
RetainedAny(f) == TRUE
Retained(f) == f.size >= MinSize

\* the files appended before the first unparsable one
RECURSIVE AppendedPrefix(_)
AppendedPrefix(kept) ==
  IF kept = <<>> \/ ~Head(kept).ok THEN <<>>
  ELSE <<Head(kept)>> \o AppendedPrefix(Tail(kept))

\* doc.save(output_path, ...) of PyMuPDF raises ValueError on a document
\* without pages and writes nothing
FitzSaveOk(appended) == Len(appended) >= 1

\* a merge that leaves out the files it cannot parse instead of failing
merge_pdfsSkipCorrupt(ls, var) ==
  LET pdf_files == SortedByPage(ls)
      appended == SelectSeq(SelectSeq(pdf_files, Retained), LAMBDA f : f.ok)
  IN  IF appended = <<>> THEN [ret |-> FALSE, date |-> 0, appended |-> appended]
      ELSE [ret |-> TRUE, date |-> NameDate(pdf_files[1].name), appended |-> appended]

\* merge_pdfs of the given variant over a directory listing:
\* [ret, date of the output name (0: nothing written), appended files]
merge_pdfs(ls, var) ==
  LET pdf_files == SortedByPage(ls)
      kept == SelectSeq(pdf_files, Retained)
      appended == AppendedPrefix(kept)
      failed == [ret |-> FALSE, date |-> 0, appended |-> appended]
  IN  IF pdf_files = <<>> THEN failed
      ELSE IF Len(appended) < Len(kept) THEN failed
      ELSE IF var = "pypdf2"
           THEN IF Len(appended) = 0 THEN failed
                ELSE [ret |-> TRUE, date |-> NameDate(appended[1].name),
                      appended |-> appended]
           ELSE IF ~FitzSaveOk(appended) THEN failed
                ELSE [ret |-> TRUE, date |-> NameDate(pdf_files[1].name),
                      appended |-> appended]

(* ---------------------------------------------------------- HTTP answers *)
\* what a GET of an HTML page can end in: a network exception, or a status;
\* n is the number of matches of the caller's pattern in a 200 body
HtmlResps(maxn) ==
  {[code |-> "200", n |-> k] : k \in 0..maxn}
    \cup {[code |-> c, n |-> 0] : c \in {"exc", "404", "500"}}

\* what a binary GET can end in: an exception or error status (no file), a 200
\* with a non-PDF content type, a 200 PDF streamed completely, or a 200 PDF
\* whose stream breaks after part of the file was written
PdfResps ==
  {[code |-> c, ctype |-> "none", size |-> 0, ok |-> FALSE, broken |-> FALSE] :
       c \in {"exc", "404", "500"}}
    \cup {[code |-> "200", ctype |-> "html", size |-> 0, ok |-> FALSE, broken |-> FALSE]}
    \cup {r \in [code : {"200"}, ctype : {"pdf"}, size : Sizes, ok : BOOLEAN,
                 broken : {FALSE}] : r.ok => r.size >= MinSize}
    \cup {[code |-> "200", ctype |-> "pdf", size |-> s, ok |-> FALSE, broken |-> TRUE] :
             s \in Sizes}

\* what the caller of a binary GET sees of its answer: the exception or error
\* status that raise_for_status turns into one, the exception of a stream that
\* breaks while the body is written, else the Content-Type header
PdfAnswer(r) ==
  IF r.code # "200" THEN r.code
  ELSE IF r.ctype = "pdf" /\ r.broken THEN "exc"
  ELSE r.ctype

\* a safe_request that treats 404 like any other unexpected status
SafeRequestStepRetry404(r, n) ==
  IF r.code = "200" THEN [done |-> TRUE, resp |-> TRUE, slept |-> FALSE]
  ELSE [done |-> n + 1 >= MAX_RETRIES, resp |-> FALSE, slept |-> r.code = "exc"]

\* one iteration of safe_request's loop, n attempts made before it
SafeRequestStep(r, n) ==
  IF r.code = "200" THEN [done |-> TRUE, resp |-> TRUE, slept |-> FALSE]
  ELSE IF r.code = "404" THEN [done |-> TRUE, resp |-> FALSE, slept |-> FALSE]
  ELSE [done |-> n + 1 >= MAX_RETRIES, resp |-> FALSE, slept |-> r.code = "exc"]

\* a download_pdf whose size test is > 1024 instead of >= 1024
DownloadStepStrict(r, n) ==
  IF r.code # "200"
  THEN [done |-> n + 1 >= MAX_RETRIES, result |-> FALSE, slept |-> TRUE,
        wrote |-> FALSE, why |-> "failed"]
  ELSE IF r.ctype # "pdf"
  THEN [done |-> TRUE, result |-> FALSE, slept |-> FALSE,
        wrote |-> FALSE, why |-> "not_pdf"]
  ELSE IF r.broken
  THEN [done |-> n + 1 >= MAX_RETRIES, result |-> FALSE, slept |-> TRUE,
        wrote |-> TRUE, why |-> "failed"]
  ELSE IF r.size > MinSize
  THEN [done |-> TRUE, result |-> TRUE, slept |-> FALSE,
        wrote |-> TRUE, why |-> "success"]
  ELSE [done |-> n + 1 >= MAX_RETRIES, result |-> FALSE, slept |-> FALSE,
        wrote |-> TRUE, why |-> "failed"]

\* one iteration of download_pdf's loop, n attempts made before it
DownloadStep(r, n) ==
  IF r.code # "200"
  THEN [done |-> n + 1 >= MAX_RETRIES, result |-> FALSE, slept |-> TRUE,
        wrote |-> FALSE, why |-> "failed"]
  ELSE IF r.ctype # "pdf"
  THEN [done |-> TRUE, result |-> FALSE, slept |-> FALSE,
        wrote |-> FALSE, why |-> "not_pdf"]
  ELSE IF r.broken
  THEN [done |-> n + 1 >= MAX_RETRIES, result |-> FALSE, slept |-> TRUE,
        wrote |-> TRUE, why |-> "failed"]
  ELSE IF r.size >= MinSize
  THEN [done |-> TRUE, result |-> TRUE, slept |-> FALSE,
        wrote |-> TRUE, why |-> "success"]
  ELSE [done |-> n + 1 >= MAX_RETRIES, result |-> FALSE, slept |-> FALSE,
        wrote |-> TRUE, why |-> "failed"]


(* ------------------------------------------------------ dates and strptime *)
\* a text is a sequence of characters; a date is a record [y, m, d]
DigitChars == <<"0", "1", "2", "3", "4", "5", "6", "7", "8", "9">>
AsciiDigits == {DigitChars[i] : i \in 1..10}
DigitVal(c) == (CHOOSE i \in 1..10 : DigitChars[i] = c) - 1

IsLeap(y) == (y % 4 = 0 /\ y % 100 # 0) \/ y % 400 = 0
DaysInMonth(y, m) ==
  IF m = 2 THEN (IF IsLeap(y) THEN 29 ELSE 28)
  ELSE IF m \in {4, 6, 9, 11} THEN 30 ELSE 31

\* the constructor of datetime.date: ValueError unless the triple is a calendar day
IsDate(y, m, d) == y >= 1 /\ m \in 1..12 /\ d >= 1 /\ d <= DaysInMonth(y, m)

\* comparison of datetime.date values
DateLE(a, b) ==
  \/ a.y < b.y
  \/ a.y = b.y /\ a.m < b.m
  \/ a.y = b.y /\ a.m = b.m /\ a.d <= b.d
DateGT(a, b) == ~DateLE(a, b)

\* current_date += datetime.timedelta(days=1)
NextDay(t) ==
  IF t.d < DaysInMonth(t.y, t.m) THEN [t EXCEPT !.d = @ + 1]
  ELSE IF t.m < 12 THEN [y |-> t.y, m |-> t.m + 1, d |-> 1]
  ELSE [y |-> t.y + 1, m |-> 1, d |-> 1]

\* strftime: %Y as four digits, %m and %d as two
Chars2(n) == <<DigitChars[(n \div 10) + 1], DigitChars[(n % 10) + 1]>>
Chars4(n) == Chars2(n \div 100) \o Chars2(n % 100)

\* dt.strftime("%Y-%m/%d")
Normalized(t) == Chars4(t.y) \o <<"-">> \o Chars2(t.m) \o <<"/">> \o Chars2(t.d)

\* the formats of validate_date in the order of its list; "Y", "m", "d" stand
\* for the directives %Y, %m, %d, any other element for the literal character
Formats ==
  << <<"Y", "m", "d">>,
     <<"Y", "-", "m", "-", "d">>,
     <<"Y", "/", "m", "/", "d">>,
     <<"Y", "-", "m", "/", "d">>,
     <<"Y", "m", "/", "d">> >>
Directives == {"Y", "m", "d"}

\* the regular expressions strptime compiles the directives to, as ordered
\* alternatives of character classes:
\*   %Y  \d\d\d\d      %m  1[0-2]|0[1-9]|[1-9]
\*   %d  3[01]|[12]\d|0[1-9]|[1-9]| [1-9]
NonZero == AsciiDigits \ {"0"}
DirectiveAltsShortFirst(t) ==
  IF t = "Y" THEN << <<AsciiDigits, AsciiDigits, AsciiDigits, AsciiDigits>> >>
  ELSE IF t = "m"
  THEN << <<NonZero>>, <<{"1"}, {"0", "1", "2"}>>, <<{"0"}, NonZero>> >>
  ELSE << <<NonZero>>, <<{"3"}, {"0", "1"}>>, <<{"1", "2"}, AsciiDigits>>,
          <<{"0"}, NonZero>>, <<{" "}, NonZero>> >>
DirectiveAlts(t) ==
  IF t = "Y" THEN << <<AsciiDigits, AsciiDigits, AsciiDigits, AsciiDigits>> >>
  ELSE IF t = "m"
  THEN << <<{"1"}, {"0", "1", "2"}>>, <<{"0"}, NonZero>>, <<NonZero>> >>
  ELSE << <<{"3"}, {"0", "1"}>>, <<{"1", "2"}, AsciiDigits>>, <<{"0"}, NonZero>>,
          <<NonZero>>, <<{" "}, NonZero>> >>

\* the characters at pos.. match the alternative
AltMatches(alt, s, pos) ==
  /\ pos + Len(alt) - 1 <= Len(s)
  /\ \A j \in 1..Len(alt) : s[pos + j - 1] \in alt[j]

\* int() of the matched group
RECURSIVE GroupValue(_, _, _)
GroupValue(s, pos, n) ==
  IF n = 0 THEN 0
  ELSE LET c == s[pos + n - 1]
       IN  10 * GroupValue(s, pos, n - 1) + (IF c \in AsciiDigits THEN DigitVal(c) ELSE 0)

NoMatch == [ok |-> FALSE, y |-> 0, m |-> 0, d |-> 0, end |-> 0]

\* format_regex.match(data_string): the first match in the order a backtracking
\* matcher tries the alternatives, anchored at the start only
RECURSIVE MatchFrom(_, _, _, _), TryAlts(_, _, _, _, _)
MatchFrom(toks, s, pos, acc) ==
  IF toks = <<>> THEN [acc EXCEPT !.ok = TRUE, !.end = pos - 1]
  ELSE IF Head(toks) \in Directives THEN TryAlts(1, toks, s, pos, acc)
  ELSE IF pos <= Len(s) /\ s[pos] = Head(toks)
       THEN MatchFrom(Tail(toks), s, pos + 1, acc)
       ELSE NoMatch
TryAlts(i, toks, s, pos, acc) ==
  LET alts == DirectiveAlts(Head(toks))
  IN  IF i > Len(alts) THEN NoMatch
      ELSE IF ~AltMatches(alts[i], s, pos) THEN TryAlts(i + 1, toks, s, pos, acc)
      ELSE LET v == GroupValue(s, pos, Len(alts[i]))
               acc2 == IF Head(toks) = "Y" THEN [acc EXCEPT !.y = v]
                       ELSE IF Head(toks) = "m" THEN [acc EXCEPT !.m = v]
                       ELSE [acc EXCEPT !.d = v]
               rest == MatchFrom(Tail(toks), s, pos + Len(alts[i]), acc2)
           IN  IF rest.ok THEN rest ELSE TryAlts(i + 1, toks, s, pos, acc)

\* datetime.datetime.strptime(s, fmt).date(): ValueError (ok = FALSE) when the
\* format does not match, when unconverted data remains, or when the values
\* are not a calendar day
strptime(s, fmt) ==
  LET f == MatchFrom(fmt, s, 1, NoMatch)
  IN  IF f.ok /\ f.end = Len(s) /\ IsDate(f.y, f.m, f.d)
      THEN [ok |-> TRUE, date |-> [y |-> f.y, m |-> f.m, d |-> f.d]]
      ELSE [ok |-> FALSE, date |-> [y |-> 0, m |-> 0, d |-> 0]]

NoDate == [y |-> 0, m |-> 0, d |-> 0]
NoRange == [s |-> NoDate, e |-> NoDate, shape |-> "none"]

\* results of the validators: a value, or sys.exit(code)
Returned(v) == [st |-> "ok", code |-> NoExit, value |-> v]
Exited(c) == [st |-> "exit", code |-> c, value |-> <<>>]
Pending == [st |-> "pending", code |-> NoExit, value |-> <<>>]

\* the body of validate_date's loop for one format: the normalized date, or
\* ValueError (from strptime or from the two range tests), which continues
TryFormatNoBounds(s, fmt, day) ==
  LET r == strptime(s, fmt)
  IN  IF r.ok THEN [ok |-> TRUE, value |-> Normalized(r.date)]
      ELSE [ok |-> FALSE, value |-> <<>>]
TryFormat(s, fmt, day) ==
  LET r == strptime(s, fmt)
  IN  IF r.ok /\ ~DateGT(r.date, day) /\ ~(r.date.y < MinYear)
      THEN [ok |-> TRUE, value |-> Normalized(r.date)]
      ELSE [ok |-> FALSE, value |-> <<>>]

RECURSIVE ValidateFrom(_, _, _)
ValidateFrom(i, s, day) ==
  IF i > Len(Formats) THEN Exited(ExitFatal)
  ELSE LET r == TryFormat(s, Formats[i], day)
       IN  IF r.ok THEN Returned(r.value) ELSE ValidateFrom(i + 1, s, day)

\* validate_date(input_date) on the day `day`
validate_date(s, day) ==
  IF s = <<>> THEN Returned(Normalized(day)) ELSE ValidateFrom(1, s, day)

\* re.sub(r"[^0-9]", "", range_str)
CleanAll(s) == s
Clean(s) == SelectSeq(s, LAMBDA c : c \in AsciiDigits)

\* the while loop of validate_date_range
RECURSIVE DaysFrom(_, _)
DaysFrom(current, end) ==
  IF DateGT(current, end) THEN <<>>
  ELSE <<current>> \o DaysFrom(NextDay(current), end)

\* validate_date_range(range_str) on the day `day`
validate_date_range(s, day) ==
  LET clean_str == Clean(s)
  IN  IF Len(clean_str) # 16 THEN Exited(ExitFatal)
      ELSE LET start == strptime(SubSeq(clean_str, 1, 8), Formats[1])
               end == strptime(SubSeq(clean_str, 9, 16), Formats[1])
           IN  IF ~start.ok \/ ~end.ok THEN Exited(ExitFatal)
               ELSE IF DateGT(start.date, end.date) THEN Exited(ExitFatal)
               ELSE IF DateGT(end.date, day) THEN Exited(ExitFatal)
               ELSE IF start.date.y < MinYear THEN Exited(ExitFatal)
               ELSE Returned(DaysFrom(start.date, end.date))


(* ------------------------------------------------------------ the process *)
\* validate_date_range's list: every day from start to end, ascending
DateRange(s, e) == [i \in 1..(e - s + 1) |-> s + i - 1]

\* Python truth value of an Optional[TaskID]: None and TaskID(0) are false
TruthyNotNone(t) == t # NoTask
Truthy(t) == t # NoTask /\ t # 0

\* progress.tasks[main_task].finished: completed has reached total_days
TaskFinished == completed >= Len(date_list)

\* the existence test of download_edition: os.path.exists(output_path)
SkipCheckOff(d) == FALSE
SkipCheck(d) == outputs[d]

\* the post-loop result of download_edition: False when success < total_pages
EditionResultAlways(s, n) == TRUE
EditionResult(s, n) == ~(s < n)

\* get_page_info's test of the current-layout cover: a response, and at least
\* one 'pageLink' marker in its text
AnyMarkerCount(resp, n) == resp
HasCurrentMarkers(resp, n) == resp /\ n > 0

\* the page loop's next page after the body ended (for ... in range: the next one)
BreakOnFailure(p, ok) == IF ok THEN p + 1 ELSE total_pages + 1
NextPage(p, ok) == p + 1

\* no validator is under study: the pipeline runs on days already validated
ValidatorsIdle ==
  /\ today = NoDate /\ task = "none" /\ vday = NoDate /\ vpad = TRUE
  /\ vresults = <<>> /\ rspec = NoRange /\ rresult = Pending

\* a single invocation runs
ConcProcs == {1, 2}
ConcIdle ==
  /\ cpc = [p \in ConcProcs |-> "none"] /\ cpage = [p \in ConcProcs |-> 0]
  /\ cwrote = [p \in ConcProcs |-> {}] /\ cws = [exists |-> FALSE, files |-> {}]
  /\ cmerged = [p \in ConcProcs |-> <<>>] /\ cout = [p \in ConcProcs |-> 0]

Init ==
  /\ variant = "unset" /\ mode = "none" /\ date_list = <<>>
  /\ idx = 0 /\ completed = 0 /\ main_task = NoTask /\ cur = 0 /\ pc = "idle"
  /\ retry = 0 /\ paused = FALSE /\ total_pages = 0 /\ is_new = FALSE
  /\ gets = 0 /\ answer = "none"
  /\ page = 0 /\ success = 0 /\ dlResult = FALSE /\ loopEnd = "none"
  /\ mergeRet = "none" /\ listing = <<>> /\ merged = <<>>
  /\ tempExists = FALSE /\ tempFiles = {} /\ wsAtPost = NoFiles
  /\ outputs = [d \in Dates |-> FALSE] /\ writes = [d \in Dates |-> 0]
  /\ reqKinds = {} /\ attempted = <<>>
  /\ pageStatus = [p \in 1..MaxPages |-> "pending"] /\ binIssued = {}
  /\ attemptedDates = <<>> /\ existedAtStart = FALSE /\ locateFailed = FALSE
  /\ interrupted = FALSE /\ exitCode = NoExit
  /\ ValidatorsIdle /\ ConcIdle

\* init_environment: both directories exist, every file of temp is unlinked
init_environmentKeepFiles == tempExists' = TRUE /\ tempFiles' = tempFiles
init_environment == tempExists' = TRUE /\ tempFiles' = {}

\* the locals of one date's processing, as they are before download_edition runs
ResetDate ==
  /\ retry' = 0 /\ paused' = FALSE /\ total_pages' = 0 /\ is_new' = FALSE
  /\ gets' = 0 /\ answer' = "none"
  /\ page' = 0 /\ success' = 0 /\ dlResult' = FALSE /\ loopEnd' = "none"
  /\ mergeRet' = "none" /\ listing' = <<>> /\ merged' = <<>> /\ wsAtPost' = NoFiles
  /\ reqKinds' = {} /\ attempted' = <<>>
  /\ pageStatus' = [p \in 1..MaxPages |-> "pending"] /\ binIssued' = {}
  /\ locateFailed' = FALSE /\ interrupted' = FALSE

\* a process invocation (the first, or one after the previous process exited;
\* the download and temp directories persist between them): main up to the
\* mode branch, i.e. init_environment, then either the batch set-up
\* (validate_date_range, add_task) or validate_date of the single date
StartRun(m, s, e) ==
  /\ UNCHANGED dateVars /\ UNCHANGED concVars
  /\ pc \in {"idle", "exited"}
  /\ mode' = m
  /\ init_environment /\ ResetDate
  /\ attemptedDates' = <<>> /\ exitCode' = NoExit
  /\ idx' = 0 /\ completed' = 0
  /\ IF m = "batch"
     THEN /\ s <= e
          /\ date_list' = DateRange(s, e) /\ main_task' = FirstTaskId
          /\ cur' = 0 /\ existedAtStart' = FALSE /\ pc' = "batch_loop"
     ELSE /\ s = e
          /\ date_list' = <<>> /\ main_task' = NoTask
          /\ cur' = s /\ existedAtStart' = outputs[s] /\ pc' = "edition"
  /\ variant' = "unset"
  /\ UNCHANGED <<outputs, writes>>

\* one iteration head of the batch loop: advance the main task, init_environment
BatchIter ==
  /\ UNCHANGED dateVars /\ UNCHANGED concVars
  /\ pc = "batch_loop" /\ idx < Len(date_list)
  /\ idx' = idx + 1 /\ cur' = date_list[idx + 1] /\ completed' = completed + 1
  /\ init_environment /\ ResetDate
  /\ existedAtStart' = outputs[date_list[idx + 1]]
  /\ pc' = "edition"
  /\ UNCHANGED <<variant, mode, date_list, main_task, outputs, writes,
                 attemptedDates, exitCode>>

\* the batch loop is exhausted: main returns
BatchDone ==
  /\ UNCHANGED dateVars /\ UNCHANGED concVars
  /\ pc = "batch_loop" /\ idx = Len(date_list)
  /\ pc' = "exited" /\ exitCode' = ExitOk
  /\ UNCHANGED <<variant, mode, date_list, idx, completed, main_task, cur,
                 retry, paused, gets, answer, total_pages, is_new, page, success, dlResult,
                 loopEnd, mergeRet, listing, merged, tempExists, tempFiles,
                 wsAtPost, outputs, writes, reqKinds, attempted, pageStatus,
                 binIssued, attemptedDates, existedAtStart, locateFailed,
                 interrupted>>

\* download_edition up to the call of get_page_info
EditionEntry ==
  /\ UNCHANGED dateVars /\ UNCHANGED concVars
  /\ pc = "edition"
  /\ attemptedDates' = Append(attemptedDates, cur)
  /\ IF SkipCheck(cur)
     THEN dlResult' = TRUE /\ pc' = "post"
     ELSE dlResult' = dlResult /\ pc' = "probe_new"
  /\ retry' = 0
  /\ UNCHANGED <<variant, mode, date_list, idx, completed, main_task, cur,
                 paused, gets, answer, total_pages, is_new, page, success, loopEnd, mergeRet,
                 listing, merged, tempExists, tempFiles, wsAtPost, outputs,
                 writes, reqKinds, attempted, pageStatus, binIssued,
                 existedAtStart, locateFailed, interrupted, exitCode>>

\* SystemExit or KeyboardInterrupt leaving download_edition / merge_pdfs through
\* main: the batch loop's finally removes the workspace, the single-date
\* branch has no finally
ExitThroughMain(code) ==
  /\ tempExists' = (IF mode = "batch" THEN FALSE ELSE tempExists)
  /\ tempFiles' = (IF mode = "batch" THEN {} ELSE tempFiles)
  /\ exitCode' = code /\ pc' = "exited"

\* get_page_info, one GET of the current-layout cover
ProbeNew(r) ==
  /\ UNCHANGED dateVars /\ UNCHANGED concVars
  /\ pc = "probe_new"
  /\ reqKinds' = reqKinds \cup {"new_cover"}
  /\ gets' = retry + 1 /\ answer' = r.code
  /\ LET st == SafeRequestStep(r, retry)
     IN  /\ paused' = (st.slept /\ ~st.done)
         /\ IF ~st.done
            THEN /\ retry' = retry + 1 /\ pc' = pc
                 /\ UNCHANGED <<total_pages, is_new, page, success>>
            ELSE IF HasCurrentMarkers(st.resp, r.n)
            THEN /\ total_pages' = r.n /\ is_new' = TRUE
                 /\ page' = 1 /\ success' = 0 /\ retry' = 0 /\ pc' = "loop"
            ELSE /\ retry' = 0 /\ pc' = "probe_old"
                 /\ UNCHANGED <<total_pages, is_new, page, success>>
  /\ UNCHANGED <<variant, mode, date_list, idx, completed, main_task, cur,
                 dlResult, loopEnd, mergeRet, listing, merged, tempExists,
                 tempFiles, wsAtPost, outputs, writes, attempted, pageStatus,
                 binIssued, attemptedDates, existedAtStart, locateFailed,
                 interrupted, exitCode>>

\* get_page_info, one GET of the legacy cover; sys.exit(1) when it is not retrievable
ProbeOld(r) ==
  /\ UNCHANGED dateVars /\ UNCHANGED concVars
  /\ pc = "probe_old"
  /\ reqKinds' = reqKinds \cup {"old_cover"}
  /\ gets' = retry + 1 /\ answer' = r.code
  /\ LET st == SafeRequestStep(r, retry)
     IN  /\ paused' = (st.slept /\ ~st.done)
         /\ IF ~st.done
            THEN /\ retry' = retry + 1 /\ pc' = pc
                 /\ UNCHANGED <<total_pages, is_new, page, success, locateFailed,
                                tempExists, tempFiles, exitCode>>
            ELSE IF st.resp
            THEN /\ total_pages' = r.n /\ is_new' = FALSE
                 /\ page' = 1 /\ success' = 0 /\ retry' = 0 /\ pc' = "loop"
                 /\ UNCHANGED <<locateFailed, tempExists, tempFiles, exitCode>>
            ELSE /\ locateFailed' = TRUE /\ retry' = 0
                 /\ ExitThroughMain(ExitFatal)
                 /\ UNCHANGED <<total_pages, is_new, page, success>>
  /\ UNCHANGED <<variant, mode, date_list, idx, completed, main_task, cur,
                 dlResult, loopEnd, mergeRet, listing, merged, wsAtPost, outputs,
                 writes, attempted, pageStatus, binIssued, attemptedDates,
                 existedAtStart, interrupted>>

\* download_edition returns from inside its try: its loop locals are gone
ReturnFromLoop ==
  /\ page' = 0 /\ retry' = 0 /\ paused' = FALSE /\ attempted' = <<>>
  /\ gets' = 0 /\ answer' = "none"
  /\ pageStatus' = [p \in 1..MaxPages |-> "pending"] /\ binIssued' = {}

\* the head of the page loop: the loop's end (post-loop result), the
\* cancellation check, or entry of the body for the next page
LoopHead ==
  /\ UNCHANGED dateVars /\ UNCHANGED concVars
  /\ pc = "loop"
  /\ IF page > total_pages
     THEN /\ dlResult' = EditionResult(success, total_pages)
          /\ loopEnd' = "done" /\ pc' = "post"
          /\ ReturnFromLoop
     ELSE IF Truthy(main_task) /\ TaskFinished
     THEN /\ dlResult' = FALSE /\ loopEnd' = "cancel" /\ pc' = "post"
          /\ ReturnFromLoop
     ELSE /\ attempted' = Append(attempted, page)
          /\ pc' = (IF is_new THEN "node" ELSE "pdf")
          /\ retry' = 0 /\ paused' = FALSE /\ gets' = 0 /\ answer' = "none"
          /\ UNCHANGED <<dlResult, loopEnd, page, pageStatus, binIssued>>
  /\ UNCHANGED <<variant, mode, date_list, idx, completed, main_task, cur,
                 total_pages, is_new, success, mergeRet, listing, merged,
                 tempExists, tempFiles, wsAtPost, outputs, writes, reqKinds,
                 attemptedDates, existedAtStart, locateFailed, interrupted,
                 exitCode>>

\* current layout: one GET of the page's node document by safe_request, then
\* the attachment pattern; a missing document or link continues with the next page
NodeAttempt(r) ==
  /\ UNCHANGED dateVars /\ UNCHANGED concVars
  /\ pc = "node"
  /\ reqKinds' = reqKinds \cup {"node"}
  /\ gets' = retry + 1 /\ answer' = r.code
  /\ LET st == SafeRequestStep(r, retry)
     IN  /\ paused' = (st.slept /\ ~st.done)
         /\ IF ~st.done
            THEN /\ retry' = retry + 1 /\ pc' = pc
                 /\ UNCHANGED <<page, pageStatus>>
            ELSE IF st.resp /\ r.n > 0
            THEN /\ retry' = 0 /\ pc' = "pdf"
                 /\ UNCHANGED <<page, pageStatus>>
            ELSE /\ retry' = 0 /\ pc' = "loop"
                 /\ pageStatus' = [pageStatus EXCEPT
                                     ![page] = IF st.resp THEN "no_link" ELSE "no_node"]
                 /\ page' = NextPage(page, FALSE)
  /\ UNCHANGED <<variant, mode, date_list, idx, completed, main_task, cur,
                 total_pages, is_new, success, dlResult, loopEnd, mergeRet,
                 listing, merged, tempExists, tempFiles, wsAtPost, outputs,
                 writes, attempted, binIssued, attemptedDates, existedAtStart,
                 locateFailed, interrupted, exitCode>>

\* download_pdf, one binary GET of the page's file
PdfAttempt(r) ==
  /\ UNCHANGED dateVars /\ UNCHANGED concVars
  /\ pc = "pdf"
  /\ reqKinds' = reqKinds \cup {IF is_new THEN "pdf_new" ELSE "pdf_old"}
  /\ binIssued' = binIssued \cup {page}
  /\ gets' = retry + 1 /\ answer' = PdfAnswer(r)
  /\ LET st == DownloadStep(r, retry)
     IN  /\ paused' = (st.slept /\ ~st.done)
         /\ tempFiles' = IF st.wrote
                         THEN WriteFile(tempFiles, [name |-> FileName(cur, page),
                                                    size |-> r.size, ok |-> r.ok])
                         ELSE tempFiles
         /\ IF ~st.done
            THEN /\ retry' = retry + 1 /\ pc' = pc
                 /\ UNCHANGED <<page, pageStatus, success>>
            ELSE /\ retry' = 0 /\ pc' = "loop"
                 /\ success' = (IF st.result THEN success + 1 ELSE success)
                 /\ pageStatus' = [pageStatus EXCEPT ![page] = st.why]
                 /\ page' = NextPage(page, st.result)
  /\ UNCHANGED <<variant, mode, date_list, idx, completed, main_task, cur,
                 total_pages, is_new, dlResult, loopEnd, mergeRet, listing,
                 merged, tempExists, wsAtPost, outputs, writes, attempted,
                 attemptedDates, existedAtStart, locateFailed, interrupted,
                 exitCode>>

\* a call of merge_pdfs(temp_dir, output_dir) by the running variant: the
\* directory is listed in some order, the composite is written on success
CallMerge ==
  \E ls \in Enumerations(tempFiles),
     v \in (IF variant = "unset" THEN Variants ELSE {variant}) :
    LET m == merge_pdfs(ls, v)
    IN  /\ variant' = v
        /\ listing' = ls /\ merged' = m.appended
        /\ mergeRet' = (IF m.ret THEN "ok" ELSE "fail")
        /\ IF m.ret
           THEN /\ outputs' = [outputs EXCEPT ![m.date] = TRUE]
                /\ writes' = [writes EXCEPT ![m.date] = @ + 1]
           ELSE UNCHANGED <<outputs, writes>>

\* main after download_edition returned: merge_pdfs when it returned True, then
\* shutil.rmtree of the workspace; the single-date branch then returns
PostDownload ==
  /\ UNCHANGED dateVars /\ UNCHANGED concVars
  /\ pc = "post"
  /\ wsAtPost' = [valid |-> \E f \in tempFiles : f.size >= MinSize /\ f.ok,
                   corrupt |-> \E f \in tempFiles : f.size >= MinSize /\ ~f.ok]
  /\ IF dlResult
     THEN CallMerge
     ELSE UNCHANGED <<variant, listing, merged, mergeRet, outputs, writes>>
  /\ tempExists' = FALSE /\ tempFiles' = {}
  /\ IF mode = "batch"
     THEN pc' = "batch_loop" /\ exitCode' = exitCode
     ELSE pc' = "exited" /\ exitCode' = ExitOk
  /\ UNCHANGED <<mode, date_list, idx, completed, main_task, cur,
                 retry, paused, gets, answer, total_pages, is_new, page, success, dlResult,
                 loopEnd, reqKinds, attempted, pageStatus, binIssued,
                 attemptedDates, existedAtStart, locateFailed, interrupted>>

\* the user's KeyboardInterrupt while the process blocks: inside the try of
\* download_edition (node and binary GETs) it is caught there and the function
\* returns False; in get_page_info and in the post-download step it reaches
\* main's handler, which exits with 130
Interrupt ==
  /\ UNCHANGED dateVars /\ UNCHANGED concVars
  /\ pc \in {"probe_new", "probe_old", "node", "pdf", "post"}
  /\ interrupted' = TRUE
  /\ IF pc \in {"node", "pdf"}
     THEN /\ dlResult' = FALSE /\ loopEnd' = "interrupt" /\ pc' = "post"
          /\ ReturnFromLoop
          /\ UNCHANGED <<tempExists, tempFiles, exitCode>>
     ELSE /\ ExitThroughMain(ExitInterrupted)
          /\ UNCHANGED <<dlResult, loopEnd, page, retry, paused, gets, answer,
                         attempted, pageStatus, binIssued>>
  /\ UNCHANGED <<variant, mode, date_list, idx, completed, main_task, cur,
                 total_pages, is_new, success, mergeRet, listing, merged,
                 wsAtPost, outputs, writes, reqKinds, attemptedDates,
                 existedAtStart, locateFailed>>

Next ==
  \/ \E m \in {"single", "batch"}, s \in Dates, e \in Dates : StartRun(m, s, e)
  \/ BatchIter
  \/ BatchDone
  \/ EditionEntry
  \/ \E r \in HtmlResps(MaxPages) : ProbeNew(r)
  \/ \E r \in HtmlResps(MaxPages) : ProbeOld(r)
  \/ LoopHead
  \/ \E r \in HtmlResps(1) : NodeAttempt(r)
  \/ \E r \in PdfResps : PdfAttempt(r)
  \/ PostDownload
  \/ Interrupt

Spec == Init /\ [][Next]_vars

TypeOK ==
  /\ variant \in Variants \cup {"unset"}
  /\ mode \in {"none", "single", "batch"}
  /\ pc \in {"idle", "batch_loop", "edition", "probe_new", "probe_old", "loop",
             "node", "pdf", "post", "exited"}
  /\ retry \in 0..(MAX_RETRIES - 1) /\ gets \in 0..MAX_RETRIES
  /\ answer \in {"none", "exc", "404", "500", "200", "pdf", "html"}
  /\ total_pages \in 0..MaxPages /\ success \in 0..MaxPages
  /\ exitCode \in {NoExit, ExitOk, ExitFatal, ExitInterrupted}
  /\ mergeRet \in {"none", "ok", "fail"}


(* ------------------------------------------- merge_pdfs on any workspace *)
\* page numbers of the workspaces merge_pdfs is applied to
MergePages == {2, 7, 10}

\* the files a workspace can hold for page p of date d: undersized (parsable
\* or not), valid, unparsable
FilesOfPage(d, p) ==
  {[name |-> FileName(d, p), size |-> sz, ok |-> o] : sz \in Sizes, o \in BOOLEAN}

Workspaces(d) ==
  {ws \in SUBSET (UNION {FilesOfPage(d, p) : p \in MergePages}) :
     \A f, g \in ws : f.name = g.name => f = g}


InitMerge ==
  /\ variant \in Variants /\ mode = "single" /\ date_list = <<>>
  /\ idx = 0 /\ completed = 0 /\ main_task = NoTask /\ cur \in Dates
  /\ pc = "merge_ready"
  /\ retry = 0 /\ paused = FALSE /\ total_pages = 0 /\ is_new = FALSE
  /\ gets = 0 /\ answer = "none"
  /\ page = 0 /\ success = 0 /\ dlResult = TRUE /\ loopEnd = "none"
  /\ mergeRet = "none" /\ listing = <<>> /\ merged = <<>>
  /\ tempExists = TRUE /\ tempFiles \in Workspaces(cur) /\ wsAtPost = NoFiles
  /\ outputs \in [Dates -> BOOLEAN] /\ writes = [d \in Dates |-> 0]
  /\ reqKinds = {} /\ attempted = <<>>
  /\ pageStatus = [p \in 1..MaxPages |-> "pending"] /\ binIssued = {}
  /\ attemptedDates = <<>> /\ existedAtStart = FALSE /\ locateFailed = FALSE
  /\ interrupted = FALSE /\ exitCode = NoExit
  /\ ValidatorsIdle /\ ConcIdle

\* merge_pdfs applied to the workspace
MergeCall ==
  /\ UNCHANGED dateVars /\ UNCHANGED concVars
  /\ pc = "merge_ready" /\ pc' = "merge_done"
  /\ CallMerge
  /\ UNCHANGED <<mode, date_list, idx, completed, main_task, cur, retry,
                 paused, gets, answer, total_pages, is_new, page, success, dlResult, loopEnd,
                 tempExists, tempFiles, wsAtPost, reqKinds, attempted,
                 pageStatus, binIssued, attemptedDates, existedAtStart,
                 locateFailed, interrupted, exitCode>>

NextMerge == MergeCall

SpecMerge == InitMerge /\ [][NextMerge]_vars


(* --------------------------------- the validators on any date and range text *)
Years == (MinYear - 1)..(MinYear + YearSpan)

\* every calendar day of the years
Days == {t \in [y : Years, m : 1..12, d : 1..31] : IsDate(t.y, t.m, t.d)}

\* the days on which the program may be running
Todays == {[y |-> MinYear, m |-> 1, d |-> 1],
           [y |-> MinYear, m |-> 12, d |-> 31],
           [y |-> MinYear + 1, m |-> 2, d |-> 29]}

\* a number as the user types it: with two digits, or without leading zero
CharsOf(n, pad) == IF pad \/ n >= 10 THEN Chars2(n) ELSE <<DigitChars[n + 1]>>

\* the text of day t in the given format
RECURSIVE EncodeToks(_, _, _)
EncodeToks(toks, t, pad) ==
  IF toks = <<>> THEN <<>>
  ELSE (IF Head(toks) = "Y" THEN Chars4(t.y)
        ELSE IF Head(toks) = "m" THEN CharsOf(t.m, pad)
        ELSE IF Head(toks) = "d" THEN CharsOf(t.d, pad)
        ELSE <<Head(toks)>>) \o EncodeToks(Tail(toks), t, pad)
Encode(t, k, pad) == EncodeToks(Formats[k], t, pad)

\* the day k days after t
RECURSIVE Plus(_, _)
Plus(t, k) == IF k = 0 THEN t ELSE Plus(NextDay(t), k - 1)

\* range inputs: two days at most MaxSpan apart in either order, written as 16
\* digits or with separators; texts of 15 and of 17 digits; texts in which one
\* of the two dates is not a calendar day (day after the month's end, month 13)
RangeSpecs ==
  {[s |-> t, e |-> Plus(t, k), shape |-> sh] :
      t \in Days, k \in 0..MaxSpan, sh \in {"plain", "dashed"}}
    \cup {[s |-> Plus(t, k), e |-> t, shape |-> "plain"] : t \in Days, k \in 1..MaxSpan}
    \cup {[s |-> t, e |-> t, shape |-> sh] : t \in Days, sh \in {"short", "long"}}
    \cup {[s |-> [t EXCEPT !.d = DaysInMonth(t.y, t.m) + 1], e |-> Plus(t, 1),
           shape |-> "plain"] : t \in Days}
    \cup {[s |-> t, e |-> [t EXCEPT !.m = 13], shape |-> "plain"] : t \in Days}

Chars8(t) == Chars4(t.y) \o Chars2(t.m) \o Chars2(t.d)
RangeText(r) ==
  IF r.shape = "plain" THEN Chars8(r.s) \o Chars8(r.e)
  ELSE IF r.shape = "dashed" THEN Encode(r.s, 2, TRUE) \o <<" ", "-", " ">> \o Encode(r.e, 3, TRUE)
  ELSE IF r.shape = "short" THEN SubSeq(Chars8(r.s) \o Chars8(r.e), 1, 15)
  ELSE Chars8(r.s) \o <<"-">> \o Chars8(r.e) \o <<"0">>

InitDates ==
  /\ variant = "unset" /\ mode = "none" /\ date_list = <<>>
  /\ idx = 0 /\ completed = 0 /\ main_task = NoTask /\ cur = 0 /\ pc = "args"
  /\ retry = 0 /\ paused = FALSE /\ total_pages = 0 /\ is_new = FALSE
  /\ gets = 0 /\ answer = "none"
  /\ page = 0 /\ success = 0 /\ dlResult = FALSE /\ loopEnd = "none"
  /\ mergeRet = "none" /\ listing = <<>> /\ merged = <<>>
  /\ tempExists = TRUE /\ tempFiles = {} /\ wsAtPost = NoFiles
  /\ outputs = [d \in Dates |-> FALSE] /\ writes = [d \in Dates |-> 0]
  /\ reqKinds = {} /\ attempted = <<>>
  /\ pageStatus = [p \in 1..MaxPages |-> "pending"] /\ binIssued = {}
  /\ attemptedDates = <<>> /\ existedAtStart = FALSE /\ locateFailed = FALSE
  /\ interrupted = FALSE /\ exitCode = NoExit
  /\ today \in Todays /\ task \in {"date", "range"}
  /\ vresults = <<>> /\ rresult = Pending
  /\ IF task = "date"
     THEN vday \in Days /\ vpad \in BOOLEAN /\ rspec = NoRange
     ELSE vday = NoDate /\ vpad = TRUE /\ rspec \in RangeSpecs
  /\ ConcIdle

\* validate_date applied to the next encoding of vday
ValidateDate ==
  /\ task = "date" /\ Len(vresults) < Len(Formats)
  /\ vresults' = Append(vresults,
                        validate_date(Encode(vday, Len(vresults) + 1, vpad), today))
  /\ UNCHANGED <<today, task, vday, vpad, rspec, rresult>>
  /\ UNCHANGED pipeVars /\ UNCHANGED concVars

\* validate_date_range applied to the text of rspec
ValidateRange ==
  /\ task = "range" /\ rresult = Pending
  /\ rresult' = validate_date_range(RangeText(rspec), today)
  /\ UNCHANGED <<today, task, vday, vpad, vresults, rspec>>
  /\ UNCHANGED pipeVars /\ UNCHANGED concVars

NextDates == ValidateDate \/ ValidateRange

SpecDates == InitDates /\ [][NextDates]_vars


(* --------------------------------------- two invocations of the tool at once *)
\* Two single-date invocations of the same script from the same installation,
\* p for the date p.  Both compute the same temp_dir under BASE_DIR.  The site answers every GET with a
\* valid page file; each edition has the pages ConcPageSet.
ConcPageSet == {1, 2}
ConcDate(p) == p

InitConc ==
  /\ variant \in Variants /\ mode = "single" /\ date_list = <<>>
  /\ idx = 0 /\ completed = 0 /\ main_task = NoTask /\ cur = 0 /\ pc = "concurrent"
  /\ retry = 0 /\ paused = FALSE /\ total_pages = 0 /\ is_new = FALSE
  /\ gets = 0 /\ answer = "none"
  /\ page = 0 /\ success = 0 /\ dlResult = FALSE /\ loopEnd = "none"
  /\ mergeRet = "none" /\ listing = <<>> /\ merged = <<>>
  /\ tempExists = FALSE /\ tempFiles = {} /\ wsAtPost = NoFiles
  /\ outputs = [d \in Dates |-> FALSE] /\ writes = [d \in Dates |-> 0]
  /\ reqKinds = {} /\ attempted = <<>>
  /\ pageStatus = [p \in 1..MaxPages |-> "pending"] /\ binIssued = {}
  /\ attemptedDates = <<>> /\ existedAtStart = FALSE /\ locateFailed = FALSE
  /\ interrupted = FALSE /\ exitCode = NoExit
  /\ ValidatorsIdle
  /\ cpc = [p \in ConcProcs |-> "start"] /\ cpage = [p \in ConcProcs |-> 0]
  /\ cwrote = [p \in ConcProcs |-> {}] /\ cws = [exists |-> FALSE, files |-> {}]
  /\ cmerged = [p \in ConcProcs |-> <<>>] /\ cout = [p \in ConcProcs |-> 0]

\* main up to the page loop: init_environment creates temp and unlinks every
\* file in it; the locate phase finds the edition's pages
ConcStart(p) ==
  /\ cpc[p] = "start"
  /\ cws' = [exists |-> TRUE, files |-> {}]
  /\ cpc' = [cpc EXCEPT ![p] = "pages"] /\ cpage' = [cpage EXCEPT ![p] = 1]
  /\ UNCHANGED <<cwrote, cmerged, cout>>
  /\ UNCHANGED pipeVars /\ UNCHANGED dateVars

\* one page of the loop: download_pdf writes the page file into temp; when the
\* directory is gone, open() raises in each attempt and the page fails
ConcPage(p) ==
  /\ cpc[p] = "pages" /\ cpage[p] \in ConcPageSet
  /\ IF cws.exists
     THEN /\ cws' = [cws EXCEPT !.files =
                       WriteFile(@, [name |-> FileName(ConcDate(p), cpage[p]),
                                     size |-> MinSize, ok |-> TRUE])]
          /\ cwrote' = [cwrote EXCEPT ![p] = @ \cup {cpage[p]}]
     ELSE UNCHANGED <<cws, cwrote>>
  /\ cpage' = [cpage EXCEPT ![p] = @ + 1]
  /\ UNCHANGED <<cpc, cmerged, cout>>
  /\ UNCHANGED pipeVars /\ UNCHANGED dateVars

\* the end of the page loop: False when fewer pages succeeded than the edition has
ConcLoopEnd(p) ==
  /\ cpc[p] = "pages" /\ cpage[p] \notin ConcPageSet
  /\ cpc' = [cpc EXCEPT ![p] = IF EditionResult(Cardinality(cwrote[p]),
                                                Cardinality(ConcPageSet))
                               THEN "merge" ELSE "cleanup"]
  /\ UNCHANGED <<cpage, cwrote, cws, cmerged, cout>>
  /\ UNCHANGED pipeVars /\ UNCHANGED dateVars

\* merge_pdfs(temp_dir, output_dir): os.listdir raises when the directory is
\* gone (the function returns False); else every .pdf in it is merged
ConcMerge(p) ==
  /\ cpc[p] = "merge"
  /\ IF ~cws.exists
     THEN UNCHANGED <<cmerged, cout>>
     ELSE \E ls \in Enumerations(cws.files) :
            LET m == merge_pdfs(ls, variant)
            IN  /\ cmerged' = [cmerged EXCEPT ![p] = IF m.ret THEN m.appended ELSE <<>>]
                /\ cout' = [cout EXCEPT ![p] = m.date]
  /\ cpc' = [cpc EXCEPT ![p] = "cleanup"]
  /\ UNCHANGED <<cpage, cwrote, cws>>
  /\ UNCHANGED pipeVars /\ UNCHANGED dateVars

\* shutil.rmtree(temp_dir, ignore_errors=True), then the process ends
ConcCleanup(p) ==
  /\ cpc[p] = "cleanup"
  /\ cws' = [exists |-> FALSE, files |-> {}]
  /\ cpc' = [cpc EXCEPT ![p] = "done"]
  /\ UNCHANGED <<cpage, cwrote, cmerged, cout>>
  /\ UNCHANGED pipeVars /\ UNCHANGED dateVars

NextConc ==
  \E p \in ConcProcs :
    \/ ConcStart(p)
    \/ ConcPage(p)
    \/ ConcLoopEnd(p)
    \/ ConcMerge(p)
    \/ ConcCleanup(p)

SpecConc == InitConc /\ [][NextConc]_vars


(* ------------------------------------------- file and artifact names as text *)
\* the calendar day the date d of a run stands for (two days across a year's end)
DayOf(d) == Plus([y |-> MinYear, m |-> 12, d |-> 30], d)

\* parse_date(target_date): the date parsed with %Y-%m/%d and written three ways
parse_date(target_date) ==
  LET dt == strptime(target_date, Formats[4]).date
  IN  [old_fmt |-> target_date, file_fmt |-> Chars8(dt),
       new_fmt |-> Chars4(dt.y) \o Chars2(dt.m) \o <<"/">> \o Chars2(dt.d)]

\* the target_date main hands to download_edition for date d
TargetDate(d) == Normalized(DayOf(d))

Rmrb == <<"r", "m", "r", "b">>
DotPdf == <<".", "p", "d", "f">>
ArtifactPrefix ==
  <<"P", "e", "o", "p", "l", "e", "'", "s", ".", "D", "a", "i", "l", "y", ".">>

\* f"rmrb{file_fmt}{page:02d}.pdf" for a page file of the workspace
FileText(name) ==
  Rmrb \o parse_date(TargetDate(name.date)).file_fmt
       \o [i \in 1..Len(name.pp) |-> DigitChars[name.pp[i] + 1]] \o DotPdf

\* text[a:b] for 0 <= a <= b
SliceFromOne(text, a, b) == SubSeq(text, a, b)
Slice(text, a, b) == SubSeq(text, a + 1, IF b < Len(text) THEN b ELSE Len(text))

\* the name merge_pdfs writes: f"People's.Daily.{first[4:12]}.pdf"
MergeOutputText(first) == ArtifactPrefix \o Slice(first, 4, 12) \o DotPdf

\* the name download_edition tests: f"People's.Daily.{file_fmt}.pdf"
SkipPathText(d) == ArtifactPrefix \o parse_date(TargetDate(d)).file_fmt \o DotPdf


(* ================================================================ claims *)
NetworkPcs == {"probe_new", "probe_old", "loop", "node", "pdf"}
DateEnded == pc \in {"exited", "batch_loop"} /\ attemptedDates # <<>>

\* the decimal value of a digit sequence: the page number a file name carries
RECURSIVE DigitsValue(_)
DigitsValue(ds) ==
  IF ds = <<>> THEN 0 ELSE 10 * DigitsValue(SubSeq(ds, 1, Len(ds) - 1)) + ds[Len(ds)]

PagesOf(files) == [i \in 1..Len(files) |-> DigitsValue(files[i].name.pp)]

\* C1: when the artifact of a date exists as processing of the date begins,
\* download_edition issues no HTTP request at all (no probe, no node or binary
\* GET) and returns True.
C1_IdempotentSkip ==
  existedAtStart =>
    /\ reqKinds = {}
    /\ pc \notin NetworkPcs
    /\ (pc \in {"post", "batch_loop", "exited"} => dlResult)

C1_Witness ==
  existedAtStart /\ pc = "post" /\ dlResult /\ reqKinds = {} /\ cur \in Dates

\* C2: a batch run that was not interrupted has called download_edition for
\* every date of its list, in the list's order, by the time it exits.
C2_BatchIsolation ==
  (pc = "exited" /\ mode = "batch" /\ exitCode # ExitInterrupted)
    => attemptedDates = date_list

C4_WorkspaceRemoved == (DateEnded /\ ~interrupted) => ~tempExists

\* C5: a single-date run whose locate phase failed or whose merge_pdfs call
\* returned failure exits with code 1.
C5_ExitFatal ==
  (pc = "exited" /\ mode = "single" /\ (locateFailed \/ mergeRet = "fail"))
    => exitCode = ExitFatal

\* C6: a single-date run during which the user raised KeyboardInterrupt exits
\* with code 130.
C6_ExitInterrupted ==
  (pc = "exited" /\ mode = "single" /\ interrupted) => exitCode = ExitInterrupted

\* C7: over any sequence of runs the artifact of a date is written at most
\* once: it exists exactly when it was written once, and no later attempt on
\* the date writes it again.
C7_WrittenOnce ==
  \A d \in Dates : writes[d] <= 1 /\ (outputs[d] <=> writes[d] = 1)

C7_Witness ==
  /\ DateEnded /\ existedAtStart /\ cur \in Dates
  /\ mergeRet = "fail" /\ writes[cur] = 1 /\ outputs[cur]

\* C8: the page loop enters its body for the pages 1, 2, ... in order, once
\* each; every page behind the loop variable has a final status, however it
\* ended; a page whose node document or link is missing caused no binary GET;
\* only successful pages are counted; when the loop ends all N were attempted.
C8_PageIsolation ==
  /\ \A i \in DOMAIN attempted : attempted[i] = i
  /\ pc \in {"node", "pdf"} => Len(attempted) = page /\ page <= total_pages
  /\ pc = "loop" => Len(attempted) = page - 1 /\ page <= total_pages + 1
  /\ \A p \in 1..MaxPages :
       /\ pageStatus[p] # "pending" => p <= Len(attempted) /\ p < page
       /\ (pc \in {"loop", "node", "pdf"} /\ p < page) => pageStatus[p] # "pending"
       /\ pageStatus[p] \in {"no_node", "no_link"} => p \notin binIssued
       /\ pageStatus[p] \in {"success", "failed", "not_pdf"} => p \in binIssued
  /\ pc \in {"loop", "node", "pdf"} =>
       success = Cardinality({p \in 1..MaxPages : pageStatus[p] = "success"})
  /\ retry < MAX_RETRIES

C8_Witness ==
  /\ pc = "loop" /\ total_pages = 2 /\ page > total_pages
  /\ pageStatus[1] = "failed" /\ pageStatus[2] = "success"
  /\ attempted = <<1, 2>> /\ success = 1

\* C9: merge_pdfs appends the page files in ascending order of the page
\* number their names carry, whatever order the directory was listed in.
C9_AssemblyOrder ==
  pc = "merge_done" =>
    \A i, j \in DOMAIN merged :
      i < j => DigitsValue(merged[i].name.pp) < DigitsValue(merged[j].name.pp)

C9_Witness ==
  /\ pc = "merge_done" /\ mergeRet = "ok"
  /\ PagesOf(listing) = <<7, 2, 10>> /\ PagesOf(merged) = <<2, 7, 10>>

\* C10: merge_pdfs over a workspace without any file of at least 1 KB returns
\* failure and writes nothing, in both variants.
C10_NoValidFiles ==
  (pc = "merge_done" /\ \A f \in tempFiles : f.size < MinSize)
    => /\ mergeRet = "fail"
       /\ \A d \in Dates : writes[d] = 0

C10_Witness ==
  /\ pc = "merge_done" /\ variant = "fitz" /\ mergeRet = "fail"
  /\ tempFiles # {} /\ \A f \in tempFiles : f.size < MinSize
  /\ ~outputs[cur]

\* a page file that merge_pdfs can use: at least 1 KB and parsable
ValidFile(f) == f.size >= MinSize /\ f.ok

\* C11: merge_pdfs over a workspace that holds at least one valid file and
\* otherwise only files under 1 KB returns success and writes the composite;
\* the composite holds exactly the valid files, each once, in page order, and
\* none of the undersized ones.
C11_UndersizedSkipped ==
  (/\ pc = "merge_done"
   /\ \E f \in tempFiles : ValidFile(f)
   /\ \A f \in tempFiles : ValidFile(f) \/ f.size < MinSize)
    => /\ mergeRet = "ok" /\ outputs[cur] /\ writes[cur] = 1
       /\ {merged[i] : i \in DOMAIN merged} = {f \in tempFiles : ValidFile(f)}
       /\ Len(merged) = Cardinality({f \in tempFiles : ValidFile(f)})
       /\ \A i, j \in DOMAIN merged :
            i < j => DigitsValue(merged[i].name.pp) < DigitsValue(merged[j].name.pp)

C11_Witness ==
  /\ pc = "merge_done" /\ mergeRet = "ok" /\ writes[cur] = 1
  /\ Cardinality(tempFiles) = 3 /\ PagesOf(merged) = <<7>>
  /\ Cardinality({f \in tempFiles : f.size < MinSize}) = 2

\* C12: when a file of at least 1 KB in the workspace cannot be parsed, the
\* merge_pdfs call that main makes returns failure and no artifact is written
\* for the date, also when files before it were appended; a batch run is then
\* back at its loop, not exited, and goes on with the next date of its list
\* (it exits only once the list is exhausted, with code 0).
C12_CorruptDateFatal ==
  (mergeRet # "none" /\ wsAtPost.corrupt)
    => /\ mergeRet = "fail" /\ ~outputs[cur] /\ writes[cur] = 0
       /\ mode = "batch" =>
            \/ /\ pc = "batch_loop" /\ exitCode = NoExit
               /\ idx < Len(date_list) => ENABLED BatchIter
            \/ pc = "exited" /\ idx = Len(date_list) /\ exitCode = ExitOk

C12_Witness ==
  /\ mode = "batch" /\ pc = "batch_loop" /\ idx < Len(date_list)
  /\ mergeRet = "fail" /\ wsAtPost.corrupt /\ Len(merged) >= 1 /\ ~outputs[cur]

\* get_page_info has returned for the current date: the page loop runs or has ended
Located == pc \in {"loop", "node", "pdf"} \/ loopEnd # "none"

CoverKinds == {"new_cover", "old_cover"}

\* C13: get_page_info probes the current-layout cover first; with a response
\* and k >= 1 markers the result is (k, current) and the legacy cover is never
\* requested; the legacy cover is probed only after the current-layout probe
\* ended (404, attempts exhausted, or a response without markers); a legacy
\* result (m >= 0, legacy) is followed by no request on the current-layout
\* page path; when the legacy cover is not retrievable either the process
\* exits with code 1 without any page request.
C13_LocatorDecision ==
  /\ pc = "probe_new" => reqKinds \subseteq {"new_cover"}
  /\ pc = "probe_old" => "new_cover" \in reqKinds /\ reqKinds \subseteq CoverKinds
  /\ (pc = "probe_old" /\ retry = 0) =>
       /\ answer \in {"404", "500", "exc", "200"}
       /\ answer \in {"500", "exc"} => gets = MAX_RETRIES
  /\ (Located /\ is_new) =>
       /\ total_pages >= 1
       /\ reqKinds \cap {"old_cover", "pdf_old"} = {}
  /\ (Located /\ ~is_new) =>
       /\ total_pages >= 0
       /\ CoverKinds \subseteq reqKinds
       /\ reqKinds \cap {"node", "pdf_new"} = {}
  /\ locateFailed =>
       /\ pc = "exited" /\ exitCode = ExitFatal
       /\ reqKinds = CoverKinds

C13_Witness ==
  /\ pc = "pdf" /\ ~is_new /\ total_pages >= 1
  /\ reqKinds = CoverKinds \cup {"pdf_old"}

\* the positions at which the process is inside a safe_request call
SafePcs == {"probe_new", "probe_old", "node"}

\* C17: every GET of a safe_request call is one of at most 3; an answer of 200
\* or 404 ends the call with that GET, any other status or an exception is
\* followed by a further GET exactly while fewer than 3 were issued; the call
\* returns the response exactly when its last GET was answered 200 (the legacy
\* probe then succeeds and otherwise fails fatally; the node step reports a
\* missing document exactly when there is no response).
C17_ProbeRetry ==
  [][(pc \in SafePcs /\ ~interrupted') =>
       /\ gets' = retry + 1 /\ gets' <= MAX_RETRIES
       /\ answer' \in {"200", "404"} => pc' # pc
       /\ answer' \in {"500", "exc"} => (pc' = pc <=> gets' < MAX_RETRIES)
       /\ pc' = pc => retry' = retry + 1
       /\ (pc = "probe_new" /\ pc' = "loop") => answer' = "200"
       /\ (pc = "probe_old" /\ pc' # pc) =>
            /\ answer' = "200" <=> pc' = "loop"
            /\ answer' # "200" <=> locateFailed'
       /\ (pc = "node" /\ pc' # pc) =>
            (answer' # "200" <=> pageStatus'[page] = "no_node")
    ]_vars

C17_Witness ==
  /\ locateFailed /\ pc = "exited" /\ answer = "404" /\ gets = 2

\* C18: download_pdf makes no further attempt for a page after a binary GET
\* that was answered 404.
C18_NotFoundEndsFetch ==
  (pc = "pdf" /\ retry > 0) => answer # "404"

\* C19: whenever safe_request or download_pdf is about to make a further
\* attempt, the failed attempt before it was followed by the 1-second pause.
C19_PauseBeforeRetry ==
  (pc \in SafePcs \cup {"pdf"} /\ retry > 0) => paused

\* C20: after a binary GET answered with a non-PDF content type the
\* download_pdf call goes on while attempts remain of its 3.
C20_NotPdfCountsAsAttempt ==
  (answer = "html" /\ gets < MAX_RETRIES) => pc = "pdf"

\* the number of a calendar day, counted from 0001-01-01, by the calendar's
\* arithmetic (independent of NextDay)
DaysBeforeMonth == <<0, 31, 59, 90, 120, 151, 181, 212, 243, 273, 304, 334>>
Ordinal(t) ==
  365 * (t.y - 1) + ((t.y - 1) \div 4) - ((t.y - 1) \div 100) + ((t.y - 1) \div 400)
    + DaysBeforeMonth[t.m] + (IF t.m > 2 /\ IsLeap(t.y) THEN 1 ELSE 0) + t.d

FirstSupportedDay == [y |-> MinYear, m |-> 1, d |-> 1]
InSupportedRange(t) ==
  Ordinal(FirstSupportedDay) <= Ordinal(t) /\ Ordinal(t) <= Ordinal(today)

\* C14: for a calendar day within [2003-01-01, today], validate_date returns
\* for each of the five encodings YYYYMMDD, YYYY-MM-DD, YYYY/MM/DD, YYYY-MM/DD,
\* YYYYMM/DD the same value, the day written as YYYY-MM/DD.
C14_FormatInvariance ==
  (task = "date" /\ vpad /\ InSupportedRange(vday)) =>
    \A j, k \in DOMAIN vresults :
      /\ vresults[k].st = "ok"
      /\ vresults[j] = vresults[k]
      /\ vresults[k].value = Chars4(vday.y) \o <<"-">> \o Chars2(vday.m)
                               \o <<"/">> \o Chars2(vday.d)

C14_Witness ==
  /\ task = "date" /\ vpad /\ InSupportedRange(vday) /\ Len(vresults) = 5
  /\ vday.m = 11 /\ vday.d = 1
  /\ \A k \in 1..5 : vresults[k].st = "ok" /\ vresults[k] = vresults[1]

\* C15: validate_date exits with code 1 for every encoding of a day before
\* 2003-01-01 or after today (no format of the list returns a date for it),
\* and returns a date for the encodings of today and of 2003-01-01.
C15_DateBounds ==
  task = "date" =>
    \A k \in DOMAIN vresults :
      /\ ~InSupportedRange(vday) => vresults[k] = Exited(ExitFatal)
      /\ (vday = today \/ vday = FirstSupportedDay) => vresults[k].st = "ok"

C15_Witness ==
  /\ task = "date" /\ Len(vresults) = 5
  /\ Ordinal(vday) = Ordinal(today) + 1
  /\ \A k \in 1..5 : vresults[k] = Exited(ExitFatal)

\* C16: validate_date_range returns a list exactly when the digits of its
\* input are 16 and form two calendar days with start <= end, end <= today and
\* start.year >= 2003, and exits with code 1 otherwise; the list holds every
\* day from start to end once, ascending: end - start + 1 consecutive days.
C16_RangeValidation ==
  (task = "range" /\ rresult # Pending) =>
    LET txt == RangeText(rspec)
        ndigits == Cardinality({i \in DOMAIN txt : txt[i] \in AsciiDigits})
        wf == /\ ndigits = 16
              /\ IsDate(rspec.s.y, rspec.s.m, rspec.s.d)
              /\ IsDate(rspec.e.y, rspec.e.m, rspec.e.d)
              /\ Ordinal(rspec.s) <= Ordinal(rspec.e)
              /\ Ordinal(rspec.e) <= Ordinal(today)
              /\ rspec.s.y >= MinYear
        lst == rresult.value
    IN  /\ wf <=> rresult.st = "ok"
        /\ ~wf => rresult = Exited(ExitFatal)
        /\ wf => /\ Len(lst) = Ordinal(rspec.e) - Ordinal(rspec.s) + 1
                 /\ \A i \in DOMAIN lst :
                      /\ IsDate(lst[i].y, lst[i].m, lst[i].d)
                      /\ Ordinal(lst[i]) = Ordinal(rspec.s) + i - 1

C16_Witness ==
  /\ task = "range" /\ rresult.st = "ok" /\ rspec.shape = "dashed"
  /\ rspec.s.m = 12 /\ rspec.s.d = 30
  /\ Len(rresult.value) = MaxSpan + 1
  /\ rresult.value[Len(rresult.value)].m = 1
  /\ rresult.value[Len(rresult.value)].y = rspec.s.y + 1

\* C21: every binary GET of a download_pdf call is one of at most 3; the call
\* reports success exactly with a GET that was answered 200 with PDF content
\* type and whose completed file has at least 1024 bytes (1024 included); a
\* completed file under 1 KB is a failed attempt, followed by a further
\* attempt exactly while fewer than 3 were made; a page is counted only on success.
C21_DownloadSuccess ==
  [][(pc = "pdf" /\ ~interrupted') =>
       LET good == /\ answer' = "pdf"
                   /\ \E f \in tempFiles' :
                        f.name = FileName(cur, page) /\ f.size >= MinSize
       IN  /\ gets' = retry + 1 /\ gets' <= MAX_RETRIES
           /\ good <=> (pc' = "loop" /\ pageStatus'[page] = "success")
           /\ good <=> success' = success + 1
           /\ ~good => success' = success
           /\ (answer' = "pdf" /\ ~good) => (pc' = "pdf" <=> gets' < MAX_RETRIES)
    ]_vars

C21_Witness ==
  /\ mergeRet = "ok" /\ loopEnd = "done" /\ success = total_pages
  /\ Len(merged) = total_pages /\ total_pages >= 1
  /\ \A i \in DOMAIN merged : merged[i].size = MinSize

\* C22: a cancellation request (the user's KeyboardInterrupt) that arrives
\* while a binary download is in flight does not abort it: the process stays
\* in that download_pdf call, and the page loop is left only at its head.
C22_NoMidDownloadCancel ==
  [][(pc = "pdf" /\ ~interrupted /\ interrupted') => pc' = "pdf"]_vars

\* C24: on a date that did not take the skip path merge_pdfs is called only
\* after a page loop in which all N pages succeeded; the workspace it lists
\* then holds one file of at least 1 KB for each page 1..N and nothing else;
\* an artifact it writes holds the pages 1..N in this order.
C24_OnlyCompleteEditions ==
  (mergeRet # "none" /\ ~existedAtStart) =>
    /\ loopEnd = "done" /\ success = total_pages
    /\ Len(listing) = total_pages
    /\ {DigitsValue(listing[i].name.pp) : i \in DOMAIN listing} = 1..total_pages
    /\ \A i \in DOMAIN listing : listing[i].size >= MinSize
    /\ mergeRet = "ok" =>
         /\ total_pages >= 1 /\ outputs[cur]
         /\ PagesOf(merged) = [i \in 1..total_pages |-> i]

C24_Witness ==
  /\ mergeRet = "ok" /\ ~existedAtStart /\ total_pages = MaxPages
  /\ PagesOf(merged) = [i \in 1..MaxPages |-> i]
  /\ PagesOf(listing) # PagesOf(merged)

\* the page file whose name merge_pdfs takes the output name from
FirstNamed ==
  IF variant = "pypdf2" THEN merged[1] ELSE SortedByPage(listing)[1]

\* C25: the name merge_pdfs writes for a date (characters 4..11 of the first
\* page file's name) is the name download_edition's existence test uses for
\* that date, and no other date has this name; so a date whose artifact a
\* merge wrote is afterwards skipped without any request.
C25_MergePathIsSkipPath ==
  /\ mergeRet = "ok" =>
       /\ MergeOutputText(FileText(FirstNamed.name)) = SkipPathText(cur)
       /\ \A d \in Dates \ {cur} :
            MergeOutputText(FileText(FirstNamed.name)) # SkipPathText(d)
       /\ outputs[cur] /\ writes[cur] = 1
  /\ (existedAtStart /\ writes[cur] = 1) =>
       /\ reqKinds = {} /\ pc \notin NetworkPcs
       /\ mergeRet # "ok"

C25_Witness ==
  /\ existedAtStart /\ writes[cur] = 1 /\ outputs[cur]
  /\ DateEnded /\ reqKinds = {} /\ mergeRet = "fail"

\* C26: in a batch run the check at the head of the page loop never ends a
\* date: the loop is left only by its end or by the user's interrupt, and at
\* its end all N pages were attempted, also for the last date of the list,
\* whose batch progress task is already finished while it is processed.
C26_NoSpuriousCancel ==
  /\ loopEnd # "cancel"
  /\ (mode = "batch" /\ loopEnd # "none" /\ ~interrupted) => loopEnd = "done"
  /\ (mode = "batch" /\ pc = "loop" /\ page > total_pages) =>
       attempted = [i \in 1..total_pages |-> i]

C26_Witness ==
  /\ mode = "batch" /\ idx = Len(date_list) /\ TaskFinished
  /\ pc = "loop" /\ page > total_pages /\ total_pages = MaxPages
  /\ attempted = [i \in 1..MaxPages |-> i]

\* C27: in a batch run download_edition starts every date on an existing,
\* empty workspace, however the date before ended; every file in the
\* workspace, and every file merge_pdfs lists, is a page file of the current date.
C27_NoCrossDate ==
  mode = "batch" =>
    /\ pc = "edition" => tempExists /\ tempFiles = {}
    /\ \A f \in tempFiles : f.name.date = cur
    /\ \A i \in DOMAIN listing : listing[i].name.date = cur

C27_Witness ==
  /\ mode = "batch" /\ idx >= 2 /\ mergeRet = "ok" /\ Len(listing) >= 1
  /\ \A i \in DOMAIN listing : listing[i].name.date = cur
  /\ ~outputs[date_list[idx - 1]]

\* C23: two invocations in flight at once do not share a workspace: while an
\* invocation is between its initialisation and its cleanup, every page file
\* it has downloaded is in the directory it will merge (the other invocation
\* has not deleted it), and the artifact it writes is named for its own date
\* and holds page files of its own date only.
C23_WorkspaceExclusive ==
  \A p \in ConcProcs :
    /\ cpc[p] \in {"pages", "merge"} =>
         \A pg \in cwrote[p] :
           \E f \in cws.files : f.name = FileName(ConcDate(p), pg)
    /\ cout[p] \in {0, ConcDate(p)}
    /\ \A i \in DOMAIN cmerged[p] : cmerged[p][i].name.date = ConcDate(p)

====
